---- MODULE Spec2Model ----
(***************************************************************************)
(* Labyrinth explorer: treasure hollows (a ratio-keyed search tree and a   *)
(* ratio-keyed max-heap), the depth-first path finder of the maze and the  *)
(* greedy treasure walk along a path.                                      *)
(*                                                                         *)
(* Sources: src/betterbst.py, src/hollows.py, src/maze.py.  The modules    *)
(* data_structures.bst, data_structures.heap, data_structures.linked_list, *)
(* data_structures.linked_stack, algorithms.mergesort and treasure are     *)
(* imported by the sources but are not part of them; the definitions that  *)
(* stand for them follow the design document (spec.md).                    *)
(***************************************************************************)
EXTENDS Integers, Sequences, FiniteSets, TLC

\* ------------------------------------------------------------------ bounds
\* Largest number of treasures gen_treasures() hands to one hollow.
MaxTreasures == 3
\* Treasure weights and values are 1..MaxWeight, the capacity of a direct call
\* 0..MaxWeight, the capacity of a walk 0..MaxWeight + 1.
MaxWeight == 2
\* Largest number of cells between the start and the exit of a corridor walked by
\* take_treasures.
MaxPathCells == 2
\* Largest number of cells (rows * cols) of a maze searched by find_way_out.
MaxCells == 8
\* Largest number of cells of a maze whose search is checked step by step (its
\* termination, the steps possible in each state).
MaxLiveCells == 6

Weights == 1..MaxWeight
Values == 0..MaxWeight
Capacities == 0..MaxWeight

VARIABLES
    gen,        \* the list gen_treasures() returns: a sequence of <<weight, value>>
    tieBreak,   \* the side an equal key goes to on insertion: "left" or "right"
    hollow,     \* hollow object id -> its fields (kind, tree, list, heap, cap)
    last,       \* the last get_optimal_treasure call: object, capacity, result, state before
    returned,   \* how many times each treasure was returned by get_optimal_treasure
    maze,       \* the Maze object: rows, cols, start_position, end_positions, grid
    path_found, \* find_way_out: the list path_found
    frames,     \* find_way_out: the active depth_first_search calls, innermost last
    way_out,    \* find_way_out: where the call is, the value a frame returned, the result
    take        \* take_treasures: where the call is, its locals, the calls it made, the result

storeVars == <<gen, tieBreak, hollow, last, returned>>
searchVars == <<path_found, frames, way_out>>
vars == <<gen, tieBreak, hollow, last, returned, maze, path_found, frames, way_out, take>>

\* ------------------------------------------------------------- treasures
\* A Treasure object: the hollow that generated it and its place in that
\* hollow's list give it its identity; weight > 0, value >= 0.
Treasure(h, i, wv) == [owner |-> h, idx |-> i, weight |-> wv[1], value |-> wv[2]]

\* value_to_weight_ratio = value / weight, kept as the fraction <<value, weight>>.
value_to_weight_ratio(t) == <<t.value, t.weight>>

\* Comparison of two ratios (fractions with positive denominators).
KeyLT(a, b) == a[1] * b[2] < b[1] * a[2]
KeyEQ(a, b) == a[1] * b[2] = b[1] * a[2]
KeyLE(a, b) == a[1] * b[2] <= b[1] * a[2]

\* Treasure.__gt__ / __le__: treasures compare by ratio.
TreasureGT(a, b) == KeyLT(value_to_weight_ratio(b), value_to_weight_ratio(a))

\* Python's None / an optional result: <<>> is None, <<x>> is x.
None == <<>>
Some(x) == <<x>>

RECURSIVE SeqToBag(_)
\* The multiset of the elements of a sequence, as element -> count.
SeqToBag(s) ==
    IF s = <<>> THEN [x \in {} |-> 0]
    ELSE LET rest == SeqToBag(Tail(s))
             x == Head(s)
         IN  [y \in DOMAIN rest \cup {x} |->
                 (IF y \in DOMAIN rest THEN rest[y] ELSE 0) + (IF y = x THEN 1 ELSE 0)]

\* The bag b with the elements of sequence s added.
BagAdd(b, s) ==
    [y \in DOMAIN b \cup {s[i] : i \in 1..Len(s)} |->
        (IF y \in DOMAIN b THEN b[y] ELSE 0) + Cardinality({i \in 1..Len(s) : s[i] = y})]

\* ------------------------------------------------- data_structures.bst
\* A tree is Nil or a node <<left, key, item, right>>.
Nil == <<>>
Node(l, k, it, r) == <<l, k, it, r>>
Left(t) == t[1]
Key(t) == t[2]
Item(t) == t[3]
Right(t) == t[4]

\* BinarySearchTree.is_empty
is_empty(root) == root = Nil

RECURSIVE insert_aux(_, _, _, _)
\* BinarySearchTree.insert_aux: descend by key and hang a new leaf; a key equal
\* to the current node's goes to the side tb.
insert_aux(current, key, item, tb) ==
    IF current = Nil THEN Node(Nil, key, item, Nil)
    ELSE IF KeyLT(key, Key(current)) \/ (KeyEQ(key, Key(current)) /\ tb = "left")
    THEN Node(insert_aux(Left(current), key, item, tb), Key(current), Item(current), Right(current))
    ELSE Node(Left(current), Key(current), Item(current), insert_aux(Right(current), key, item, tb))

RECURSIVE get_maximal(_)
\* BinarySearchTree.get_maximal: the rightmost node below (and including) current.
get_maximal(current) ==
    IF Right(current) = Nil THEN current ELSE get_maximal(Right(current))

RECURSIVE get_minimal(_)
\* BinarySearchTree.get_minimal: the leftmost node below (and including) current.
get_minimal(current) ==
    IF Left(current) = Nil THEN current ELSE get_minimal(Left(current))

RECURSIVE TreeHasKey(_, _)
\* Whether the search for key, as delete_aux performs it, finds a node.
TreeHasKey(current, key) ==
    IF current = Nil THEN FALSE
    ELSE IF KeyLT(key, Key(current)) THEN TreeHasKey(Left(current), key)
    ELSE IF KeyLT(Key(current), key) THEN TreeHasKey(Right(current), key)
    ELSE TRUE

RECURSIVE delete_aux(_, _)
\* BinarySearchTree.delete_aux: standard deletion of the first node on the search
\* path whose key equals key; a node with two children takes the key and item of
\* its successor, whose key is then deleted from the right subtree.  No rebalancing.
delete_aux(current, key) ==
    IF current = Nil THEN Nil
    ELSE IF KeyLT(key, Key(current))
    THEN Node(delete_aux(Left(current), key), Key(current), Item(current), Right(current))
    ELSE IF KeyLT(Key(current), key)
    THEN Node(Left(current), Key(current), Item(current), delete_aux(Right(current), key))
    ELSE IF Left(current) = Nil /\ Right(current) = Nil THEN Nil
    ELSE IF Left(current) = Nil THEN Right(current)
    ELSE IF Right(current) = Nil THEN Left(current)
    ELSE LET succ == get_minimal(Right(current))
         IN  Node(Left(current), Key(succ), Item(succ), delete_aux(Right(current), Key(succ)))

RECURSIVE InOrder(_)
\* BSTInOrderIterator: the nodes in ascending in-order, each as <<key, item>>.
InOrder(current) ==
    IF current = Nil THEN <<>>
    ELSE InOrder(Left(current)) \o <<<<Key(current), Item(current)>>>> \o InOrder(Right(current))

\* The items a tree holds, in in-order.
RECURSIVE TreeItems(_)
TreeItems(current) ==
    IF current = Nil THEN <<>>
    ELSE TreeItems(Left(current)) \o <<Item(current)>> \o TreeItems(Right(current))

\* ------------------------------------------------- algorithms.mergesort
RECURSIVE merge(_, _)
\* merge of two sorted lists of <<key, item>>; on equal keys the element of the
\* first list goes first (stable).
merge(l1, l2) ==
    IF l1 = <<>> THEN l2
    ELSE IF l2 = <<>> THEN l1
    ELSE IF KeyLE(Head(l1)[1], Head(l2)[1])
    THEN <<Head(l1)>> \o merge(Tail(l1), l2)
    ELSE <<Head(l2)>> \o merge(l1, Tail(l2))

RECURSIVE mergesort(_)
\* mergesort(elements, sort_key = key): split in halves, sort each, merge.
mergesort(elements) ==
    IF Len(elements) <= 1 THEN elements
    ELSE LET mid == Len(elements) \div 2
         IN  merge(mergesort(SubSeq(elements, 1, mid)),
                   mergesort(SubSeq(elements, mid + 1, Len(elements))))

\* ---------------------------------------------------------- betterbst.py
\* BetterBST.__sort_elements
sort_elements(elements) == mergesort(elements)

RECURSIVE build_balanced_tree_aux(_, _, _, _, _)
\* BetterBST._build_balanced_tree_aux: insert the middle element into the tree
\* (self[key] = item), then build from the left part, then from the right part.
\* Indices are 1-based here; the middle element is the same as with 0-based ones.
build_balanced_tree_aux(root, elements, beginning_element, ending_element, tb) ==
    IF beginning_element > ending_element THEN root
    ELSE LET middle_element == (beginning_element + ending_element) \div 2
             key == elements[middle_element][1]
             item == elements[middle_element][2]
             r1 == insert_aux(root, key, item, tb)
             r2 == build_balanced_tree_aux(r1, elements, beginning_element, middle_element - 1, tb)
         IN  build_balanced_tree_aux(r2, elements, middle_element + 1, ending_element, tb)

\* BetterBST.__init__: sort, then build from an empty tree.
BetterBST(elements, tb) ==
    LET new_elements == sort_elements(elements)
    IN  build_balanced_tree_aux(Nil, new_elements, 1, Len(new_elements), tb)

\* ------------------------------------------------ data_structures.heap
\* A MaxHeap is its array the_array[1..length], kept as a sequence, and the fixed
\* capacity it was created with.

RECURSIVE rise_loop(_, _, _)
\* The loop of MaxHeap.rise: the hole at k moves up while item is greater than
\* the parent.
rise_loop(arr, k, item) ==
    IF k > 1 /\ TreasureGT(item, arr[k \div 2])
    THEN rise_loop([arr EXCEPT ![k] = arr[k \div 2]], k \div 2, item)
    ELSE [arr EXCEPT ![k] = item]

\* MaxHeap.rise
rise(arr, k) == rise_loop(arr, k, arr[k])

\* MaxHeap.largest_child
largest_child(arr, k) ==
    IF 2 * k = Len(arr) \/ TreasureGT(arr[2 * k], arr[2 * k + 1]) THEN 2 * k ELSE 2 * k + 1

RECURSIVE sink_loop(_, _, _)
\* The loop of MaxHeap.sink: the hole at k moves down to the larger child while
\* that child is greater than item.
sink_loop(arr, k, item) ==
    IF 2 * k <= Len(arr)
    THEN LET max_child == largest_child(arr, k)
         IN  IF ~TreasureGT(arr[max_child], item)
             THEN [arr EXCEPT ![k] = item]
             ELSE sink_loop([arr EXCEPT ![k] = arr[max_child]], max_child, item)
    ELSE [arr EXCEPT ![k] = item]

\* MaxHeap.sink
sink(arr, k) == sink_loop(arr, k, arr[k])

\* MaxHeap.add: append and rise (the caller checks is_full).
add(arr, element) == rise(Append(arr, element), Len(arr) + 1)

\* MaxHeap.get_max: the root; the last element takes its place and sinks.
\* Returns <<max, array after>>.
get_max(arr) ==
    LET n == Len(arr)
    IN  IF n = 1 THEN <<arr[1], <<>>>>
        ELSE <<arr[1], sink([SubSeq(arr, 1, n - 1) EXCEPT ![1] = arr[n]], 1)>>

RECURSIVE heapify_loop(_, _)
\* The loop of MaxHeap.heapify: sink the positions len // 2 down to 1.
heapify_loop(arr, i) ==
    IF i < 1 THEN arr ELSE heapify_loop(sink(arr, i), i - 1)

\* MaxHeap.heapify: bottom-up construction over the whole list.
heapify(points) == heapify_loop(points, Len(points) \div 2)

\* ------------------------------------------------------------ hollows.py
\* A hollow object: kind ("spooky" or "mystical"); tree is self.treasures of a
\* SpookyHollow (the BetterBST); list is self.treasures of a MysticalHollow (the
\* generated list, which restructure_hollow leaves in place); heap and cap are
\* the MaxHeap self.heap and the size it was created with.

\* Hollow.gen_treasures for hollow h: fresh Treasure objects after the list g.
gen_treasures(h, g) == [i \in 1..Len(g) |-> Treasure(h, i, g[i])]

\* SpookyHollow.__init__ with restructure_hollow: the BetterBST of (ratio, treasure).
NewSpookyHollow(h, g, tb) ==
    LET treasures == gen_treasures(h, g)
        numbers == [i \in 1..Len(treasures) |-> <<value_to_weight_ratio(treasures[i]), treasures[i]>>]
    IN  [kind |-> "spooky", tree |-> BetterBST(numbers, tb), list |-> <<>>, heap |-> <<>>, cap |-> 0]

\* Mutant of NewMysticalHollow: the list is taken as the heap's array as it is.
NewMysticalHollowNoHeapify(h, g) ==
    LET treasures == gen_treasures(h, g)
    IN  [kind |-> "mystical", tree |-> Nil, list |-> treasures,
         heap |-> treasures, cap |-> Len(treasures)]

\* MysticalHollow.__init__ with restructure_hollow: MaxHeap(len).heapify(treasures).
NewMysticalHollow(h, g) ==
    LET treasures == gen_treasures(h, g)
    IN  [kind |-> "mystical", tree |-> Nil, list |-> treasures,
         heap |-> heapify(treasures), cap |-> Len(treasures)]

RECURSIVE PushAll(_, _)
\* for node in ordered_nodes: empty_stack.push(node); the stack's top is its head.
PushAll(stack, nodes) ==
    IF nodes = <<>> THEN stack ELSE PushAll(<<Head(nodes)>> \o stack, Tail(nodes))

RECURSIVE PopAll(_, _)
\* for _ in range(len(empty_stack)): ordered_nodes.append(empty_stack.pop())
PopAll(stack, out) ==
    IF stack = <<>> THEN out ELSE PopAll(Tail(stack), Append(out, Head(stack)))

\* Mutant of DescendingNodes: the pass through the stack left out (ascending order).
AscendingNodes(tree) == InOrder(tree)

\* The in-order nodes passed through the LinkedStack: descending order.
DescendingNodes(tree) == PopAll(PushAll(<<>>, InOrder(tree)), <<>>)

RECURSIVE FirstFeasible(_, _, _)
\* The scan "for node in ordered_nodes: if treasure.weight <= backpack_capacity:
\* ... break": the index of the first node that fits, from index i on; 0 if none.
FirstFeasible(nodes, i, backpack_capacity) ==
    IF i > Len(nodes) THEN 0
    ELSE IF nodes[i][2].weight <= backpack_capacity THEN i
    ELSE FirstFeasible(nodes, i + 1, backpack_capacity)

\* Mutant of DelItem: the key deleted is weight / value, not value / weight.
DelItemSwappedKey(self, key) ==
    IF TreeHasKey(self.tree, <<key[2], key[1]>>)
    THEN [self |-> [self EXCEPT !.tree = delete_aux(self.tree, <<key[2], key[1]>>)], raised |-> "none"]
    ELSE [self |-> self, raised |-> "ValueError"]

\* del self.treasures[key]: delete_aux from the root; a missing key raises.
DelItem(self, key) ==
    IF TreeHasKey(self.tree, key)
    THEN [self |-> [self EXCEPT !.tree = delete_aux(self.tree, key)], raised |-> "none"]
    ELSE [self |-> self, raised |-> "ValueError"]

\* SpookyHollow.get_optimal_treasure.  route names the way taken: "empty", "probe"
\* (the maximal node fits), "scan" (the descending scan found one), "none".
SpookyGetOptimalTreasure(self, backpack_capacity) ==
    IF is_empty(self.tree)
    THEN [result |-> None, self |-> self, route |-> "empty", raised |-> "none"]
    ELSE LET best_treasure == get_maximal(self.tree)
         IN  IF Item(best_treasure).weight <= backpack_capacity
             THEN LET d == DelItem(self, Key(best_treasure))
                  IN  [result |-> IF d.raised = "none" THEN Some(Item(best_treasure)) ELSE None,
                       self |-> d.self, route |-> "probe", raised |-> d.raised]
             ELSE LET ordered_nodes == DescendingNodes(self.tree)
                      i == FirstFeasible(ordered_nodes, 1, backpack_capacity)
                  IN  IF i = 0
                      THEN [result |-> None, self |-> self, route |-> "none", raised |-> "none"]
                      ELSE LET d == DelItem(self, ordered_nodes[i][1])
                           IN  [result |-> IF d.raised = "none" THEN Some(ordered_nodes[i][2]) ELSE None,
                                self |-> d.self, route |-> "scan", raised |-> d.raised]

RECURSIVE PopLoopStrict(_, _, _)
\* Mutant of PopLoop: the test weight < backpack_capacity in place of <=.
PopLoopStrict(heap, temporary_linked_list, backpack_capacity) ==
    IF Len(heap) > 0
    THEN LET p == get_max(heap)
         IN  IF p[1].weight < backpack_capacity
             THEN [heap |-> p[2], temporary_linked_list |-> temporary_linked_list,
                   chosen_treasure |-> Some(p[1])]
             ELSE PopLoopStrict(p[2], Append(temporary_linked_list, p[1]), backpack_capacity)
    ELSE [heap |-> heap, temporary_linked_list |-> temporary_linked_list,
          chosen_treasure |-> None]

RECURSIVE PopLoop(_, _, _)
\* The while loop of MysticalHollow.get_optimal_treasure: pop the maximum until
\* one fits or the heap is exhausted; the ones that do not fit are appended to
\* temporary_linked_list.
PopLoop(heap, temporary_linked_list, backpack_capacity) ==
    IF Len(heap) > 0
    THEN LET p == get_max(heap)
         IN  IF p[1].weight <= backpack_capacity
             THEN [heap |-> p[2], temporary_linked_list |-> temporary_linked_list,
                   chosen_treasure |-> Some(p[1])]
             ELSE PopLoop(p[2], Append(temporary_linked_list, p[1]), backpack_capacity)
    ELSE [heap |-> heap, temporary_linked_list |-> temporary_linked_list,
          chosen_treasure |-> None]

RECURSIVE ReinsertNoRise(_, _, _)
\* Mutant of Reinsert: the treasure is put at the end of the array and not risen.
ReinsertNoRise(heap, temporary_linked_list, cap) ==
    IF temporary_linked_list = <<>> THEN [heap |-> heap, raised |-> "none"]
    ELSE IF Len(heap) >= cap THEN [heap |-> heap, raised |-> "IndexError"]
    ELSE ReinsertNoRise(Append(heap, Head(temporary_linked_list)), Tail(temporary_linked_list), cap)

RECURSIVE ReinsertTwice(_, _, _)
\* Mutant of Reinsert: every buffered treasure is added twice.
ReinsertTwice(heap, temporary_linked_list, cap) ==
    IF temporary_linked_list = <<>> THEN [heap |-> heap, raised |-> "none"]
    ELSE IF Len(heap) + 1 >= cap THEN [heap |-> heap, raised |-> "IndexError"]
    ELSE ReinsertTwice(add(add(heap, Head(temporary_linked_list)), Head(temporary_linked_list)),
                       Tail(temporary_linked_list), cap)

RECURSIVE ReinsertSkipFirst(_, _, _)
\* Mutant of Reinsert: the first buffered treasure is not added back.
ReinsertSkipFirst(heap, temporary_linked_list, cap) ==
    IF Len(temporary_linked_list) <= 1 THEN [heap |-> heap, raised |-> "none"]
    ELSE IF Len(heap) >= cap THEN [heap |-> heap, raised |-> "IndexError"]
    ELSE ReinsertSkipFirst(add(heap, temporary_linked_list[2]),
                           <<Head(temporary_linked_list)>> \o Tail(Tail(temporary_linked_list)), cap)

RECURSIVE Reinsert(_, _, _)
\* for treasure in temporary_linked_list: self.heap.add(treasure); add raises
\* IndexError on a full heap.
Reinsert(heap, temporary_linked_list, cap) ==
    IF temporary_linked_list = <<>> THEN [heap |-> heap, raised |-> "none"]
    ELSE IF Len(heap) >= cap THEN [heap |-> heap, raised |-> "IndexError"]
    ELSE Reinsert(add(heap, Head(temporary_linked_list)), Tail(temporary_linked_list), cap)

\* Mutant of MysticalGetOptimalTreasure: "return None" as soon as the loop found
\* nothing, before the buffered treasures are added back.
MysticalGetOptimalTreasureEarlyReturn(self, backpack_capacity) ==
    LET l == PopLoop(self.heap, <<>>, backpack_capacity)
        r == IF l.chosen_treasure = None
             THEN [heap |-> l.heap, raised |-> "none"]
             ELSE Reinsert(l.heap, l.temporary_linked_list, self.cap)
    IN  [result |-> IF r.raised = "none" THEN l.chosen_treasure ELSE None,
         self |-> [self EXCEPT !.heap = r.heap],
         route |-> IF Len(self.heap) = 0 THEN "empty"
                   ELSE IF l.chosen_treasure = None THEN "none"
                   ELSE IF l.temporary_linked_list = <<>> THEN "probe" ELSE "scan",
         raised |-> r.raised]

\* MysticalHollow.get_optimal_treasure.  (self.heap == 0 compares the heap object
\* with a number and is never true; an empty heap skips the loop.)
MysticalGetOptimalTreasure(self, backpack_capacity) ==
    LET l == PopLoop(self.heap, <<>>, backpack_capacity)
        r == Reinsert(l.heap, l.temporary_linked_list, self.cap)
    IN  [result |-> IF r.raised = "none" THEN l.chosen_treasure ELSE None,
         self |-> [self EXCEPT !.heap = r.heap],
         route |-> IF Len(self.heap) = 0 THEN "empty"
                   ELSE IF l.chosen_treasure = None THEN "none"
                   ELSE IF l.temporary_linked_list = <<>> THEN "probe" ELSE "scan",
         raised |-> r.raised]

\* hollow.get_optimal_treasure(backpack_capacity), dispatched on the object's class.
get_optimal_treasure(self, backpack_capacity) ==
    IF self.kind = "spooky" THEN SpookyGetOptimalTreasure(self, backpack_capacity)
    ELSE MysticalGetOptimalTreasure(self, backpack_capacity)

\* The treasures a hollow holds, as a sequence (tree in-order, heap array order).
Contents(self) == IF self.kind = "spooky" THEN TreeItems(self.tree) ELSE self.heap

\* Whether treasure t fits capacity c.
Fits(t, c) == t.weight <= c

\* Hollow.__len__: len(self.treasures), the number of nodes of a SpookyHollow's
\* tree, the length of the list a MysticalHollow was created with.
HollowLen(self) == IF self.kind = "spooky" THEN Len(InOrder(self.tree)) ELSE Len(self.list)

\* --------------------------------------------------------------- maze.py
\* Tiles (config.Tiles): the characters of a maze file.
START_POSITION == "P"
EXIT == "E"
WALL == "#"
EMPTY == " "
SPOOKY_HOLLOW == "S"
MYSTICAL_HOLLOW == "M"

\* Position(row, col) is <<row, col>>, rows and columns counted from 0.
Positions(rows, cols) == (0..(rows - 1)) \X (0..(cols - 1))

\* Object ids: a MazeCell whose tile is a string holds no hollow (NoHollow); the
\* MysticalHollow load_maze_from_file creates is MysticalId; MysticalHollow objects
\* have ids <= 0 other than NoHollow, the SpookyHollow of the cell at p has the id
\* SpookyId(p) >= 1.
NoHollow == -1
MysticalId == 0
SpookyId(p, cols) == p[1] * cols + p[2] + 1

\* Mutant of LoadedHollows: a MysticalHollow() of its own for every 'M' cell.
LoadedHollowsPerCell(lines, rows, cols) ==
    [p \in {q \in Positions(rows, cols) : lines[q] \in {SPOOKY_HOLLOW, MYSTICAL_HOLLOW}} |->
        IF lines[p] = MYSTICAL_HOLLOW THEN -(SpookyId(p, cols) + 1) ELSE SpookyId(p, cols)]

\* The hollows list load_maze_from_file builds: position -> hollow object, every
\* 'M' cell the one mystical_hollow, every 'S' cell a SpookyHollow of its own.
LoadedHollows(lines, rows, cols) ==
    [p \in {q \in Positions(rows, cols) : lines[q] \in {SPOOKY_HOLLOW, MYSTICAL_HOLLOW}} |->
        IF lines[p] = MYSTICAL_HOLLOW THEN MysticalId ELSE SpookyId(p, cols)]

\* The hollow objects load_maze_from_file creates, each from gen_treasures():
\* mystical_hollow and the objects of the hollows list.
LoadedObjects(lines, rows, cols, g, tb) ==
    LET hollows == LoadedHollows(lines, rows, cols)
    IN  [h \in {MysticalId} \cup {hollows[p] : p \in DOMAIN hollows} |->
            IF h <= MysticalId THEN NewMysticalHollow(h, g) ELSE NewSpookyHollow(h, g, tb)]

\* The tile character str(tile) of a cell holding hollow object h.
HollowTile(objects, h) == IF objects[h].kind = "spooky" THEN SPOOKY_HOLLOW ELSE MYSTICAL_HOLLOW

\* Maze._create_grid: ' ' everywhere, then the start, the walls, the hollows and
\* the exits, each overwriting the tile before.  A MazeCell is its tile character,
\* the hollow object its tile is (NoHollow: none) and visited.
create_grid(start_position, end_positions, walls, hollows, objects, rows, cols) ==
    [p \in Positions(rows, cols) |->
        [tile |-> IF p \in end_positions THEN EXIT
                  ELSE IF p \in DOMAIN hollows THEN HollowTile(objects, hollows[p])
                  ELSE IF p \in walls THEN WALL
                  ELSE IF p = start_position THEN START_POSITION
                  ELSE EMPTY,
         hollow |-> IF p \notin end_positions /\ p \in DOMAIN hollows THEN hollows[p] ELSE NoHollow,
         visited |-> FALSE]]

\* Maze.__init__
Maze(start_position, end_positions, walls, hollows, objects, rows, cols) ==
    [start_position |-> start_position, end_positions |-> end_positions,
     rows |-> rows, cols |-> cols,
     grid |-> create_grid(start_position, end_positions, walls, hollows, objects, rows, cols)]

\* Maze.load_maze_from_file on a validated file whose characters are lines.
load_maze_from_file(lines, rows, cols, objects) ==
    LET P == Positions(rows, cols)
    IN  Maze(CHOOSE p \in P : lines[p] = START_POSITION,
             {p \in P : lines[p] = EXIT},
             {p \in P : lines[p] = WALL},
             LoadedHollows(lines, rows, cols), objects, rows, cols)

\* Mutant of is_valid_position: the visited test left out.
IsValidIgnoringVisited(m, position) ==
    IF position[1] < 0 \/ position[1] >= m.rows \/ position[2] < 0 \/ position[2] >= m.cols
    THEN FALSE
    ELSE m.grid[position].tile # WALL

\* Mutant of is_valid_position: the wall test left out.
IsValidIgnoringWalls(m, position) ==
    IF position[1] < 0 \/ position[1] >= m.rows \/ position[2] < 0 \/ position[2] >= m.cols
    THEN FALSE
    ELSE ~m.grid[position].visited

\* Maze.is_valid_position
is_valid_position(m, position) ==
    IF position[1] < 0 \/ position[1] >= m.rows \/ position[2] < 0 \/ position[2] >= m.cols
    THEN FALSE
    ELSE ~(m.grid[position].tile = WALL \/ m.grid[position].visited)

\* Mutant of exit_postions: right, down, left, up.
ExitPositionsRightFirst == <<<<0, 1>>, <<1, 0>>, <<0, -1>>, <<-1, 0>>>>

\* exit_postions of get_available_positions: up, down, left, right.
exit_postions == <<<<-1, 0>>, <<1, 0>>, <<0, -1>>, <<0, 1>>>>

\* Maze.get_available_positions
get_available_positions(m, current_position) ==
    LET cand == [k \in 1..4 |-> <<current_position[1] + exit_postions[k][1],
                                  current_position[2] + exit_postions[k][2]>>]
    IN  SelectSeq(cand, LAMBDA q : is_valid_position(m, q))

\* The first lines of depth_first_search(current_pos), called with path_found = path
\* from the frames outer: mark the cell, append it to path_found; an exit returns
\* True at once, any other cell starts the loop over the positions available at
\* that moment.  way_out.entered is the log of the cells entered by the search,
\* way_out.previous the result of the find_way_out call before this one, if any.
Enter(current_pos, outer, path, fresh, entered, previous) ==
    LET m == [maze EXCEPT !.grid[current_pos].visited = TRUE]
    IN  /\ maze' = m
        /\ path_found' = Append(path, current_pos)
        /\ IF m.grid[current_pos].tile = EXIT
           THEN /\ frames' = outer
                /\ way_out' = [pc |-> "searching", ret |-> "true", fresh |-> fresh, result |-> None,
                               entered |-> Append(entered, current_pos),
                               previous |-> previous]
           ELSE /\ frames' = Append(outer, [current_pos |-> current_pos,
                                            positions |-> get_available_positions(m, current_pos),
                                            k |-> 1])
                /\ way_out' = [pc |-> "searching", ret |-> "none", fresh |-> fresh, result |-> None,
                               entered |-> Append(entered, current_pos),
                               previous |-> previous]

\* find_way_out is called: path_found = [] and depth_first_search(start).  fresh
\* records whether no cell of the maze was visited at the call.
FindWayOutCall ==
    /\ way_out.pc \in {"idle", "returned"}
    /\ Enter(maze.start_position, <<>>, <<>>, \A p \in DOMAIN maze.grid : ~maze.grid[p].visited, <<>>,
             IF way_out.pc = "returned" THEN Some(way_out.result) ELSE None)
    /\ UNCHANGED <<storeVars, take>>

\* The loop of the innermost depth_first_search takes its next position and calls
\* depth_first_search on it.
Recurse ==
    /\ way_out.pc = "searching" /\ way_out.ret \in {"none", "false"}
    /\ frames # <<>>
    /\ LET n == Len(frames)
           f == frames[n]
       IN  /\ f.k <= Len(f.positions)
           /\ Enter(f.positions[f.k], [frames EXCEPT ![n].k = f.k + 1], path_found, way_out.fresh,
                    way_out.entered, way_out.previous)
    /\ UNCHANGED <<storeVars, take>>

\* Mutant of Backtrack: the cell left is marked unvisited again.
BacktrackClearsVisited ==
    /\ way_out.pc = "searching" /\ way_out.ret \in {"none", "false"}
    /\ frames # <<>>
    /\ frames[Len(frames)].k > Len(frames[Len(frames)].positions)
    /\ path_found' = SubSeq(path_found, 1, Len(path_found) - 1)
    /\ maze' = [maze EXCEPT !.grid[frames[Len(frames)].current_pos].visited = FALSE]
    /\ frames' = SubSeq(frames, 1, Len(frames) - 1)
    /\ way_out' = [way_out EXCEPT !.ret = "false"]
    /\ UNCHANGED <<storeVars, take>>

\* Mutant of Backtrack: return False without path_found.pop().
BacktrackNoPop ==
    /\ way_out.pc = "searching" /\ way_out.ret \in {"none", "false"}
    /\ frames # <<>>
    /\ frames[Len(frames)].k > Len(frames[Len(frames)].positions)
    /\ frames' = SubSeq(frames, 1, Len(frames) - 1)
    /\ way_out' = [way_out EXCEPT !.ret = "false"]
    /\ UNCHANGED <<storeVars, maze, path_found, take>>

\* The loop of the innermost depth_first_search is over: path_found.pop() and
\* return False.
Backtrack ==
    /\ way_out.pc = "searching" /\ way_out.ret \in {"none", "false"}
    /\ frames # <<>>
    /\ frames[Len(frames)].k > Len(frames[Len(frames)].positions)
    /\ path_found' = SubSeq(path_found, 1, Len(path_found) - 1)
    /\ frames' = SubSeq(frames, 1, Len(frames) - 1)
    /\ way_out' = [way_out EXCEPT !.ret = "false"]
    /\ UNCHANGED <<storeVars, maze, take>>

\* Mutant of Propagate: path_found.pop() before the return True.
PropagateWithPop ==
    /\ way_out.pc = "searching" /\ way_out.ret = "true"
    /\ frames # <<>>
    /\ frames' = SubSeq(frames, 1, Len(frames) - 1)
    /\ path_found' = SubSeq(path_found, 1, Len(path_found) - 1)
    /\ UNCHANGED <<storeVars, maze, way_out, take>>

\* A recursive call returned True: the innermost depth_first_search returns True.
Propagate ==
    /\ way_out.pc = "searching" /\ way_out.ret = "true"
    /\ frames # <<>>
    /\ frames' = SubSeq(frames, 1, Len(frames) - 1)
    /\ UNCHANGED <<storeVars, maze, path_found, way_out, take>>

\* The outermost depth_first_search has returned: find_way_out returns path_found
\* or None.
FindWayOutReturn ==
    /\ way_out.pc = "searching" /\ way_out.ret \in {"true", "false"}
    /\ frames = <<>>
    /\ way_out' = [way_out EXCEPT !.pc = "returned",
                                  !.result = IF way_out.ret = "true" THEN Some(path_found) ELSE None]
    /\ UNCHANGED <<storeVars, maze, path_found, frames, take>>

\* ------------------------------------------------------- the hollow alone
\* Lists gen_treasures() may return.
TreasureLists == UNION {[1..n -> Weights \X Values] : n \in 0..MaxTreasures}

NoCall == [h |-> NoHollow, cap |-> 0, result |-> None, route |-> "none", raised |-> "none",
           before |-> <<>>]

\* No maze, no search, no walk.
NoMaze == [start_position |-> <<0, 0>>, end_positions |-> {}, rows |-> 0, cols |-> 0,
           grid |-> <<>>]
NoSearch == [pc |-> "idle", ret |-> "none", fresh |-> TRUE, result |-> None, entered |-> <<>>,
             previous |-> None]
NoTake == [pc |-> "idle", path |-> <<>>, i |-> 1, backpack_capacity |-> 0,
           treasures_collected |-> <<>>, capacity0 |-> 0, calls |-> <<>>, result |-> None]

InitIdle ==
    /\ last = NoCall
    /\ returned = SeqToBag(<<>>)
    /\ path_found = <<>>
    /\ frames = <<>>
    /\ way_out = NoSearch
    /\ take = NoTake

\* A SpookyHollow built from a generated list, with either tie-break of the tree.
InitSpooky ==
    /\ gen \in TreasureLists
    /\ tieBreak \in {"left", "right"}
    /\ hollow = (1 :> NewSpookyHollow(1, gen, tieBreak))
    /\ maze = NoMaze
    /\ InitIdle

\* A MysticalHollow built from a generated list.
InitMystical ==
    /\ gen \in TreasureLists
    /\ tieBreak = "left"
    /\ hollow = (MysticalId :> NewMysticalHollow(MysticalId, gen))
    /\ maze = NoMaze
    /\ InitIdle

\* The effect of hollow[h].get_optimal_treasure(c) on the hollows, with the record
\* of the call; an exception leaves the call's partial effects in place.
GetOptimalTreasureAt(h, c) ==
    LET r == get_optimal_treasure(hollow[h], c)
    IN  /\ hollow' = [hollow EXCEPT ![h] = r.self]
        /\ last' = [h |-> h, cap |-> c, result |-> r.result, route |-> r.route,
                    raised |-> r.raised, before |-> Contents(hollow[h])]
        /\ returned' = BagAdd(returned, r.result)
        /\ UNCHANGED <<gen, tieBreak>>

\* A direct call hollow[h].get_optimal_treasure(c).
CallGetOptimalTreasure(h, c) ==
    /\ GetOptimalTreasureAt(h, c)
    /\ UNCHANGED <<maze, searchVars, take>>

NextHollow == \E h \in DOMAIN hollow, c \in Capacities : CallGetOptimalTreasure(h, c)

SpecSpooky == InitSpooky /\ [][NextHollow]_vars
SpecMystical == InitMystical /\ [][NextHollow]_vars

\* ------------------------------------------------- the two stores in step
SpookyTwin == 1

\* Lists gen_treasures() may return for the two stores: fewer than MaxTreasures
\* treasures.
TwinLists == {g \in TreasureLists : Len(g) < MaxTreasures}

\* A SpookyHollow and a MysticalHollow over the same generated treasures.
InitTwins ==
    /\ gen \in TwinLists
    /\ tieBreak \in {"left", "right"}
    /\ hollow = (SpookyTwin :> NewSpookyHollow(SpookyTwin, gen, tieBreak))
                    @@ (MysticalId :> NewMysticalHollow(MysticalId, gen))
    /\ maze = NoMaze
    /\ InitIdle

\* The next capacity of the sequence is given to the SpookyHollow ...
CallSpookyTwin(c) ==
    /\ last.h # SpookyTwin
    /\ CallGetOptimalTreasure(SpookyTwin, c)

\* ... and then to the MysticalHollow.
CallMysticalTwin ==
    /\ last.h = SpookyTwin
    /\ CallGetOptimalTreasure(MysticalId, last.cap)

NextTwins == (\E c \in Capacities : CallSpookyTwin(c)) \/ CallMysticalTwin

SpecTwins == InitTwins /\ [][NextTwins]_vars

\* ------------------------------------------------------ the tree's build
\* The list is generated; the SpookyHollow is not restructured yet.
InitBuild ==
    /\ gen \in TreasureLists
    /\ tieBreak \in {"left", "right"}
    /\ hollow = <<>>
    /\ maze = NoMaze
    /\ InitIdle

\* SpookyHollow.restructure_hollow: the BetterBST is built from the (ratio,
\* treasure) pairs of the generated list, in the list's order.
RestructureSpooky ==
    /\ hollow = <<>>
    /\ hollow' = (SpookyTwin :> NewSpookyHollow(SpookyTwin, gen, tieBreak))
    /\ UNCHANGED <<gen, tieBreak, last, returned, maze, searchVars, take>>

SpecBuild == InitBuild /\ [][RestructureSpooky]_vars

\* ---------------------------------------------------------- the search
\* Maze files of rows x cols cells with one start, at least one exit, walls and
\* plain cells.  (A hollow cell is neither a wall nor an exit: the search treats
\* it as a plain cell.)
SearchFiles(rows, cols) ==
    {l \in [Positions(rows, cols) -> {START_POSITION, EXIT, WALL, EMPTY}] :
        /\ Cardinality({p \in Positions(rows, cols) : l[p] = START_POSITION}) = 1
        /\ \E p \in Positions(rows, cols) : l[p] = EXIT}

\* A maze of at most MaxCells cells loaded from a file, not searched yet.
InitMaze ==
    /\ gen = <<>>
    /\ tieBreak = "left"
    /\ hollow = (MysticalId :> NewMysticalHollow(MysticalId, gen))
    /\ \E rows \in 1..MaxCells, cols \in 1..MaxCells :
          /\ rows * cols <= MaxCells
          /\ \E lines \in SearchFiles(rows, cols) :
                maze = load_maze_from_file(lines, rows, cols, hollow)
    /\ InitIdle

NextMaze == FindWayOutCall \/ Recurse \/ Backtrack \/ Propagate \/ FindWayOutReturn

SpecMaze == InitMaze /\ [][NextMaze]_vars

\* A maze of at most MaxLiveCells cells loaded from a file, not searched yet.
InitSmallMaze ==
    /\ gen = <<>>
    /\ tieBreak = "left"
    /\ hollow = (MysticalId :> NewMysticalHollow(MysticalId, gen))
    /\ \E rows \in 1..MaxLiveCells, cols \in 1..MaxLiveCells :
          /\ rows * cols <= MaxLiveCells
          /\ \E lines \in SearchFiles(rows, cols) :
                maze = load_maze_from_file(lines, rows, cols, hollow)
    /\ InitIdle

SpecSmallMaze == InitSmallMaze /\ [][NextMaze]_vars

\* The steps find_way_out takes by itself once it is called: the interpreter
\* runs a call that has started until it returns.
SearchStep == Recurse \/ Backtrack \/ Propagate \/ FindWayOutReturn

\* The search under the fairness of a running call: a step that stays possible
\* is taken.
SpecMazeFair == InitSmallMaze /\ [][NextMaze]_vars /\ WF_vars(SearchStep)

\* ------------------------------------------------------------ the walk
\* Mutant of PassedCapacity: the capacity the walk started with.
PassedStartCapacity(tk) == tk.capacity0

\* The argument of hollow.get_optimal_treasure(backpack_capacity) in take_treasures.
PassedCapacity(tk) == tk.backpack_capacity

\* Mutant of AfterTreasure: the weight is not taken off backpack_capacity.
AfterTreasureNoSubtract(tk, treasure) ==
    [tk EXCEPT !.treasures_collected = Append(@, treasure)]

\* "backpack_capacity -= treasure.weight; treasures_collected.append(treasure)"
AfterTreasure(tk, treasure) ==
    [tk EXCEPT !.backpack_capacity = @ - treasure.weight,
               !.treasures_collected = Append(@, treasure)]

\* isinstance(cell.tile, SpookyHollow) / isinstance(cell.tile, MysticalHollow)
IsInstance(cell, kind) == cell.hollow # NoHollow /\ hollow[cell.hollow].kind = kind

\* The path a corridor maze (one row) gives: its cells from left to right.
CorridorPath(m) == [i \in 1..m.cols |-> <<0, i - 1>>]

\* take_treasures(path, backpack_capacity) is called.  capacity0 keeps the
\* capacity of the call, calls the get_optimal_treasure calls the walk makes.
TakeTreasuresCall(path, backpack_capacity) ==
    /\ take.pc = "idle"
    /\ take' = [pc |-> "loop", path |-> path, i |-> 1, backpack_capacity |-> backpack_capacity,
                treasures_collected |-> <<>>, capacity0 |-> backpack_capacity,
                calls |-> <<>>, result |-> None]
    /\ UNCHANGED <<storeVars, maze, searchVars>>

\* One pass of "for cell in path": a cell whose tile is a SpookyHollow or a
\* MysticalHollow (the two if statements; a tile is one or the other) is asked for
\* its optimal treasure, and a treasure returned is taken.
TakeStep ==
    /\ take.pc = "loop"
    /\ take.i <= Len(take.path)
    /\ LET cell == maze.grid[take.path[take.i]]
       IN  IF IsInstance(cell, "spooky") \/ IsInstance(cell, "mystical")
           THEN LET c == PassedCapacity(take)
                    r == get_optimal_treasure(hollow[cell.hollow], c)
                    tk == [take EXCEPT !.calls = Append(@, [i |-> take.i, cap |-> c,
                                                            result |-> r.result])]
                IN  /\ GetOptimalTreasureAt(cell.hollow, c)
                    /\ take' = IF r.raised # "none" THEN [tk EXCEPT !.pc = "raised"]
                               ELSE IF r.result # None
                               THEN [AfterTreasure(tk, r.result[1]) EXCEPT !.i = @ + 1]
                               ELSE [tk EXCEPT !.i = @ + 1]
           ELSE /\ take' = [take EXCEPT !.i = @ + 1]
                /\ UNCHANGED storeVars
    /\ UNCHANGED <<maze, searchVars>>

\* Mutant of TakeTreasuresReturn: the list is returned as it is, empty or not.
TakeTreasuresReturnList ==
    /\ take.pc = "loop"
    /\ take.i > Len(take.path)
    /\ take' = [take EXCEPT !.pc = "returned", !.result = Some(take.treasures_collected)]
    /\ UNCHANGED <<storeVars, maze, searchVars>>

\* The loop is over: None if nothing was collected, else the list.
TakeTreasuresReturn ==
    /\ take.pc = "loop"
    /\ take.i > Len(take.path)
    /\ take' = [take EXCEPT !.pc = "returned",
                            !.result = IF Len(take.treasures_collected) = 0 THEN None
                                       ELSE Some(take.treasures_collected)]
    /\ UNCHANGED <<storeVars, maze, searchVars>>

\* Corridor files "P", k cells that are plain or hold a hollow, "E".
CorridorFiles(k) ==
    {l \in [Positions(1, k + 2) -> {START_POSITION, EXIT, EMPTY, SPOOKY_HOLLOW, MYSTICAL_HOLLOW}] :
        /\ l[<<0, 0>>] = START_POSITION
        /\ l[<<0, k + 1>>] = EXIT
        /\ \A j \in 1..k : l[<<0, j>>] \in {EMPTY, SPOOKY_HOLLOW, MYSTICAL_HOLLOW}}

\* Lists gen_treasures() may return for the hollows of a corridor: fewer than
\* MaxTreasures treasures, each of a positive value.
CorridorLists ==
    {g \in TreasureLists : Len(g) < MaxTreasures /\ \A i \in 1..Len(g) : g[i][2] >= 1}

\* A corridor maze of MaxPathCells cells between start and exit, loaded from a
\* file, each of its hollows filled from the generated list.
InitCorridor ==
    /\ gen \in CorridorLists
    /\ tieBreak \in {"left", "right"}
    /\ \E lines \in CorridorFiles(MaxPathCells) :
          /\ hollow = LoadedObjects(lines, 1, MaxPathCells + 2, gen, tieBreak)
          /\ maze = load_maze_from_file(lines, 1, MaxPathCells + 2, hollow)
    /\ InitIdle

WalkCapacities == 0..(MaxWeight + 1)

NextHarvest ==
    \/ \E c \in WalkCapacities : TakeTreasuresCall(CorridorPath(maze), c)
    \/ TakeStep
    \/ TakeTreasuresReturn

SpecHarvest == InitCorridor /\ [][NextHarvest]_vars

\* maze.grid[p].tile.get_optimal_treasure(c): a direct call through the mystical
\* hollow cell at p.
CallThroughCell(p, c) ==
    /\ IsInstance(maze.grid[p], "mystical")
    /\ CallGetOptimalTreasure(maze.grid[p].hollow, c)

NextShared == \E p \in DOMAIN maze.grid, c \in Capacities : CallThroughCell(p, c)

SpecShared == InitCorridor /\ [][NextShared]_vars

\* maze.grid[p].tile.get_optimal_treasure(c): a direct call through the cell at
\* p, whose tile is a hollow of either kind.
CallThroughHollowCell(p, c) ==
    /\ maze.grid[p].hollow # NoHollow
    /\ CallGetOptimalTreasure(maze.grid[p].hollow, c)

NextExtract == \E p \in DOMAIN maze.grid, c \in Capacities : CallThroughHollowCell(p, c)

\* Any sequence of extractions through the hollow cells of a loaded maze.
SpecExtract == InitCorridor /\ [][NextExtract]_vars


\* ----------------------------------------------- search, then the walk
\* The file of the 3x3 maze without walls: start at (0,0), exit at (2,2), a
\* SpookyHollow at (1,1).
EndToEndFile ==
    [p \in Positions(3, 3) |->
        IF p = <<0, 0>> THEN START_POSITION
        ELSE IF p = <<2, 2>> THEN EXIT
        ELSE IF p = <<1, 1>> THEN SPOOKY_HOLLOW
        ELSE EMPTY]

\* The lists gen_treasures() returns for its hollow: the treasures (weight 2,
\* value 10) and (weight 5, value 5), in either order.
EndToEndLists == {<<<<2, 10>>, <<5, 5>>>>, <<<<5, 5>>, <<2, 10>>>>}

EndToEndCapacities == 0..6

InitEndToEnd ==
    /\ gen \in EndToEndLists
    /\ tieBreak \in {"left", "right"}
    /\ hollow = LoadedObjects(EndToEndFile, 3, 3, gen, tieBreak)
    /\ maze = load_maze_from_file(EndToEndFile, 3, 3, hollow)
    /\ InitIdle

\* take_treasures is called on the cells of the path find_way_out returned (the
\* MazeCell self.grid[row][col] of each Position; a cell is known by its position).
HarvestFoundPath(c) ==
    /\ way_out.pc = "returned" /\ way_out.result # None
    /\ TakeTreasuresCall(way_out.result[1], c)

NextEndToEnd ==
    \/ FindWayOutCall \/ Recurse \/ Backtrack \/ Propagate \/ FindWayOutReturn
    \/ \E c \in EndToEndCapacities : HarvestFoundPath(c)
    \/ TakeStep
    \/ TakeTreasuresReturn

SpecEndToEnd == InitEndToEnd /\ [][NextEndToEnd]_vars

\* ------------------------------------------------------ claims: hollows
\* The treasures of a sequence that fit capacity c.
FeasibleIn(items, c) == {items[i] : i \in {j \in 1..Len(items) : Fits(items[j], c)}}

\* A call has been made on a hollow of the given kind.
Called(kind) == last.h # NoHollow /\ hollow[last.h].kind = kind

\* The call returned a feasible treasure of the store whose ratio no feasible
\* treasure of the store exceeds.
ReturnedBestFeasible ==
    /\ last.result # None
    /\ last.result[1] \in FeasibleIn(last.before, last.cap)
    /\ \A u \in FeasibleIn(last.before, last.cap) :
           KeyLE(value_to_weight_ratio(u), value_to_weight_ratio(last.result[1]))

\* C1: SpookyHollow.get_optimal_treasure on a store holding a treasure that fits
\* the capacity returns a fitting treasure of the highest ratio among the fitting
\* ones, by the probe of the maximal node or by the descending scan.
C1_SpookyReturnsBestFeasible ==
    (Called("spooky") /\ FeasibleIn(last.before, last.cap) # {}) => ReturnedBestFeasible

\* C1 witness: the descending scan returned a treasure while a fitting treasure
\* of a lower ratio was in the store too.
C1_Witness ==
    /\ Called("spooky") /\ last.route = "scan" /\ last.result # None
    /\ \E u \in FeasibleIn(last.before, last.cap) :
           KeyLT(value_to_weight_ratio(u), value_to_weight_ratio(last.result[1]))

\* C2: MysticalHollow.get_optimal_treasure on a heap holding a treasure that fits
\* the capacity returns a fitting treasure of the highest ratio among the fitting
\* ones.
C2_MysticalReturnsBestFeasible ==
    (Called("mystical") /\ FeasibleIn(last.before, last.cap) # {}) => ReturnedBestFeasible

\* C2 witness: a treasure was returned after heavier ones of a higher ratio were
\* popped, while a fitting treasure of a lower ratio was in the heap too.
C2_Witness ==
    /\ Called("mystical") /\ last.route = "scan" /\ last.result # None
    /\ \E u \in FeasibleIn(last.before, last.cap) :
           KeyLT(value_to_weight_ratio(u), value_to_weight_ratio(last.result[1]))

\* C3: a MysticalHollow.get_optimal_treasure call that returns None leaves the
\* multiset of the heap's treasures as it was before the call.
C3_MysticalNoneKeepsMultiset ==
    (Called("mystical") /\ last.raised = "none" /\ last.result = None)
        => SeqToBag(hollow[last.h].heap) = SeqToBag(last.before)

\* C3 witness: a call returned None after popping two or more treasures.
C3_Witness ==
    /\ Called("mystical") /\ last.raised = "none" /\ last.result = None
    /\ last.route = "none" /\ Len(last.before) >= 2

\* C4: a MysticalHollow.get_optimal_treasure call that returns t leaves the heap's
\* multiset equal to the one before the call less one occurrence of t.
C4_MysticalRemovesOnlyReturned ==
    (Called("mystical") /\ last.result # None)
        => SeqToBag(Append(hollow[last.h].heap, last.result[1])) = SeqToBag(last.before)

\* C4 witness: a treasure was returned after at least one other was popped and
\* reinserted.
C4_Witness ==
    /\ Called("mystical") /\ last.result # None /\ last.route = "scan"
    /\ Len(hollow[last.h].heap) >= 1

\* C5: SpookyHollow.get_optimal_treasure returns None and leaves the tree's pairs
\* unchanged when the store is empty or nothing fits; when it returns t, exactly
\* the node holding t is removed and every other treasure remains.
C5_SpookyFrame ==
    Called("spooky") =>
        /\ (FeasibleIn(last.before, last.cap) = {}) =>
               (last.result = None /\ TreeItems(hollow[last.h].tree) = last.before)
        /\ (last.result # None) =>
               SeqToBag(Append(TreeItems(hollow[last.h].tree), last.result[1]))
                   = SeqToBag(last.before)

\* ------------------------------------------------------ claims: search
\* Two positions one step up, down, left or right of each other.
Adjacent(p, q) ==
    \/ (p[1] = q[1] /\ (p[2] = q[2] + 1 \/ q[2] = p[2] + 1))
    \/ (p[2] = q[2] /\ (p[1] = q[1] + 1 \/ q[1] = p[1] + 1))

\* The cells of maze m that are not walls.
Passable(m) == {p \in DOMAIN m.grid : m.grid[p].tile # WALL}

RECURSIVE ReachableFrom(_, _)
\* The cells reachable from the set seen through adjacent cells that are not walls.
ReachableFrom(m, seen) ==
    LET more == {q \in Passable(m) : \E p \in seen : Adjacent(p, q)} \ seen
    IN  IF more = {} THEN seen ELSE ReachableFrom(m, seen \cup more)

\* Whether an exit cell is reachable from the start cell.
ExitReachable(m) ==
    \E p \in ReachableFrom(m, {m.start_position}) : m.grid[p].tile = EXIT

\* find_way_out, called on a maze no cell of which was visited, has returned.
FreshSearchReturned == way_out.pc = "returned" /\ way_out.fresh

\* C7: a path returned by find_way_out on a fresh maze starts at the start
\* position, ends at an exit cell, steps between adjacent cells, stays in bounds
\* and off the walls, and holds no position twice.
C7_ReturnedPathIsValid ==
    (FreshSearchReturned /\ way_out.result # None) =>
        LET path == way_out.result[1]
        IN  /\ Len(path) >= 1
            /\ path[1] = maze.start_position
            /\ \A i \in 1..Len(path) :
                   /\ path[i] \in Positions(maze.rows, maze.cols)
                   /\ maze.grid[path[i]].tile # WALL
            /\ maze.grid[path[Len(path)]].tile = EXIT
            /\ \A i \in 1..(Len(path) - 1) : Adjacent(path[i], path[i + 1])
            /\ \A i, j \in 1..Len(path) : i # j => path[i] # path[j]

\* C7 witness: a path of four or more positions was returned after the search
\* had backtracked out of a cell that is not on it.
C7_Witness ==
    /\ FreshSearchReturned /\ way_out.result # None
    /\ Len(way_out.result[1]) >= 4
    /\ \E p \in DOMAIN maze.grid :
           maze.grid[p].visited /\ \A i \in 1..Len(way_out.result[1]) : way_out.result[1][i] # p

\* C8: on a fresh maze find_way_out returns None exactly when no exit cell is
\* reachable from the start through adjacent in-bounds cells that are not walls.
C8_NoneIffNoExitReachable ==
    FreshSearchReturned => ((way_out.result = None) <=> ~ExitReachable(maze))

\* C8 witness: the search returned None after it had explored three or more
\* cells of a maze whose exit is walled off.
C8_Witness ==
    /\ FreshSearchReturned /\ way_out.result = None
    /\ Cardinality({p \in DOMAIN maze.grid : maze.grid[p].visited}) >= 3
    /\ \E p \in DOMAIN maze.grid : maze.grid[p].tile = WALL

\* ----------------------------------------- claims: shared hollow, walk
\* The cells of maze m whose tile is a MysticalHollow.
MysticalCells(m) == {p \in DOMAIN m.grid : m.grid[p].tile = MYSTICAL_HOLLOW}

\* The treasures observable through the hollow of the cell at p.
ObservableAt(p) ==
    LET c == Contents(hollow[maze.grid[p].hollow]) IN {c[i] : i \in 1..Len(c)}

\* The treasures get_optimal_treasure calls on mystical hollows have returned.
ReturnedByMystical == {t \in DOMAIN returned : returned[t] >= 1 /\ hollow[t.owner].kind = "mystical"}

\* C6: all mystical cells of a loaded maze hold one and the same hollow object; a
\* treasure extracted through one of them is observable through none of them
\* afterwards and is returned once only.
C6_SharedMysticalHollow ==
    /\ \A p, q \in MysticalCells(maze) : maze.grid[p].hollow = maze.grid[q].hollow
    /\ \A t \in ReturnedByMystical :
           /\ returned[t] = 1
           /\ \A q \in MysticalCells(maze) : t \notin ObservableAt(q)

\* C6 witness: a maze with two mystical cells, after an extraction that left a
\* treasure in the shared heap.
C6_Witness ==
    /\ Cardinality(MysticalCells(maze)) >= 2
    /\ ReturnedByMystical # {}
    /\ last.h # NoHollow /\ last.result # None
    /\ \E q \in MysticalCells(maze) : ObservableAt(q) # {}

RECURSIVE SumWeights(_)
\* The total weight of a sequence of optional treasures (None counts 0).
SumWeights(results) ==
    IF results = <<>> THEN 0
    ELSE (IF Head(results) = None THEN 0 ELSE Head(results)[1].weight) + SumWeights(Tail(results))

\* The sequence of treasures as optional results.
AsResults(treasures) == [i \in 1..Len(treasures) |-> Some(treasures[i])]

\* C9: during and after a walk started with capacity >= 0 the remaining capacity
\* is never negative and the collected treasures never weigh more than the
\* starting capacity.
C9_WalkWithinCapacity ==
    (take.pc # "idle") =>
        /\ take.backpack_capacity >= 0
        /\ SumWeights(AsResults(take.treasures_collected)) <= take.capacity0
        /\ (take.result # None) => SumWeights(AsResults(take.result[1])) <= take.capacity0

\* C9 witness: a walk returned two or more treasures that use up the capacity.
C9_Witness ==
    /\ take.pc = "returned" /\ take.result # None
    /\ Len(take.result[1]) >= 2
    /\ SumWeights(AsResults(take.result[1])) = take.capacity0

RECURSIVE Flatten(_)
\* The treasures of a sequence of optional results, in order.
Flatten(results) ==
    IF results = <<>> THEN <<>> ELSE Head(results) \o Flatten(Tail(results))

\* The cells of the path the loop has dealt with.
CellsDone == IF take.pc = "raised" THEN 1..take.i ELSE 1..(take.i - 1)

\* C10: take_treasures goes through the path in order and calls
\* get_optimal_treasure once per hollow-bearing cell, with the starting capacity
\* less the weight collected at earlier cells; a None result changes neither the
\* capacity nor the list; the list is in the order of the cells.
C10_WalkOrderAndCapacity ==
    (take.pc # "idle") =>
        LET calls == take.calls
            results == [n \in 1..Len(calls) |-> calls[n].result]
        IN  /\ \A n \in 1..(Len(calls) - 1) : calls[n].i < calls[n + 1].i
            /\ {calls[n].i : n \in 1..Len(calls)}
                   = {j \in CellsDone : maze.grid[take.path[j]].hollow # NoHollow}
            /\ \A n \in 1..Len(calls) :
                   calls[n].cap = take.capacity0 - SumWeights(SubSeq(results, 1, n - 1))
            /\ take.treasures_collected = Flatten(results)
            /\ take.backpack_capacity = take.capacity0 - SumWeights(results)

\* C10 witness: a walk over two hollow cells took a treasure at the first and got
\* None, for a smaller capacity, at the second.
C10_Witness ==
    /\ take.pc = "returned" /\ Len(take.calls) >= 2
    /\ take.calls[1].result # None
    /\ take.calls[2].result = None
    /\ take.calls[2].cap < take.capacity0
    /\ take.calls[2].cap > 0

\* ----------------------------------------- claims: stores compared, builder
\* Two results are the same: both None, or the same treasure of the generated
\* list (the treasure at the same place of the list).
SameResult(a, b) ==
    IF a = None \/ b = None THEN a = b ELSE a[1].idx = b[1].idx

\* C11 as stated: a SpookyHollow and a MysticalHollow built from the same
\* treasures and given the same capacities return the same result at every step.
C11_StoresAgree ==
    [][(last.h = SpookyTwin /\ last'.h = MysticalId) => SameResult(last.result, last'.result)]_vars

\* No two treasures of the generated list have the same ratio.
DistinctRatios ==
    \A i, j \in 1..Len(gen) :
        i # j => ~KeyEQ(value_to_weight_ratio(Treasure(0, i, gen[i])),
                        value_to_weight_ratio(Treasure(0, j, gen[j])))

\* C11 amended: when the ratios of the initial treasures are pairwise distinct,
\* a SpookyHollow and a MysticalHollow built from them and given the same
\* capacities return the same result at every step.
C11_StoresAgreeOnDistinctRatios ==
    [][(DistinctRatios /\ last.h = SpookyTwin /\ last'.h = MysticalId)
           => SameResult(last.result, last'.result)]_vars

\* C11 witness: over distinct ratios both stores have returned a treasure, the
\* MysticalHollow after popping a heavier one of a higher ratio.
C11_Witness ==
    /\ DistinctRatios /\ last.h = MysticalId /\ last.result # None /\ last.route = "scan"
    /\ \E t \in DOMAIN returned : t.owner = SpookyTwin /\ returned[t] >= 1

\* C12: no treasure is returned twice by get_optimal_treasure, whatever the
\* sequence of extractions on the hollows of a maze.
C12_NeverReturnedTwice == \A t \in DOMAIN returned : returned[t] <= 1

\* The BetterBST has just been built from n >= 1 pairs.
JustBuilt == hollow # <<>> /\ last = NoCall /\ Len(gen) >= 1

\* The tree built.
BuiltTree == hollow[SpookyTwin].tree

RECURSIVE Height(_)
\* The height of a tree, counted in nodes.
Height(t) == IF t = Nil THEN 0 ELSE 1 + (IF Height(Left(t)) >= Height(Right(t))
                                         THEN Height(Left(t)) ELSE Height(Right(t)))

RECURSIVE Pow2(_)
Pow2(h) == IF h = 0 THEN 1 ELSE 2 * Pow2(h - 1)

\* ceil(log2(n + 1)): the least h with 2^h >= n + 1.
CeilLog2Succ(n) == CHOOSE h \in 0..(n + 1) : Pow2(h) >= n + 1 /\ \A g \in 0..(h - 1) : Pow2(g) < n + 1

RECURSIVE SearchOrdered(_)
\* Every key of the left subtree <= the node's key <= every key of the right
\* subtree, at every node.
SearchOrdered(t) ==
    t = Nil \/
        /\ \A i \in 1..Len(InOrder(Left(t))) : KeyLE(InOrder(Left(t))[i][1], Key(t))
        /\ \A i \in 1..Len(InOrder(Right(t))) : KeyLE(Key(t), InOrder(Right(t))[i][1])
        /\ SearchOrdered(Left(t)) /\ SearchOrdered(Right(t))

\* The tree holds exactly the pairs (ratio, treasure) of the generated list.
HoldsAllPairs(t) ==
    /\ Len(InOrder(t)) = Len(gen)
    /\ {InOrder(t)[i] : i \in 1..Len(InOrder(t))}
           = {<<value_to_weight_ratio(Treasure(SpookyTwin, i, gen[i])), Treasure(SpookyTwin, i, gen[i])>>
                  : i \in 1..Len(gen)}

\* C13: right after the build from n >= 1 pairs the tree is search-ordered, holds
\* all n pairs and is at most ceil(log2(n+1)) nodes high.
C13_BuiltTreeBalanced ==
    JustBuilt =>
        /\ SearchOrdered(BuiltTree)
        /\ HoldsAllPairs(BuiltTree)
        /\ Height(BuiltTree) <= CeilLog2Succ(Len(gen))

\* C14: the build accepts duplicate keys, and the in-order traversal yields all n
\* pairs sorted by key, pairs of equal key in their original relative order.
C14_InOrderIsStableSort ==
    JustBuilt =>
        /\ HoldsAllPairs(BuiltTree)
        /\ \A i, j \in 1..Len(InOrder(BuiltTree)) :
               i < j => LET a == InOrder(BuiltTree)[i]
                            b == InOrder(BuiltTree)[j]
                        IN  \/ KeyLT(a[1], b[1])
                            \/ (KeyEQ(a[1], b[1]) /\ a[2].idx < b[2].idx)

\* ------------------------------------------------------ claims: end to end
\* The positions of a sequence.
Range(seq) == {seq[i] : i \in 1..Len(seq)}

\* C15: on the 3x3 maze without walls, start (0,0), exit (2,2), a SpookyHollow at
\* (1,1) holding (weight 2, value 10) and (weight 5, value 5), the path found
\* passes through (1,1) and the walk along it with capacity 3 returns the
\* weight-2 treasure alone.
C15_EndToEnd ==
    /\ FreshSearchReturned => (way_out.result # None /\ <<1, 1>> \in Range(way_out.result[1]))
    /\ (take.pc # "idle" /\ take.capacity0 = 3) => take.pc # "raised"
    /\ (take.pc = "returned" /\ take.capacity0 = 3) =>
           /\ take.result # None
           /\ Len(take.result[1]) = 1
           /\ take.result[1][1].weight = 2 /\ take.result[1][1].value = 10

\* C15 witness: the walk with capacity 3 along the path found has returned.
C15_Witness ==
    /\ take.pc = "returned" /\ take.capacity0 = 3
    /\ <<1, 1>> \in Range(take.path) /\ Len(take.calls) = 1

\* ------------------------------------------------- claims: the search's steps
\* How many times position p occurs in a sequence of positions.
Occurrences(seq, p) == Cardinality({i \in 1..Len(seq) : seq[i] = p})

\* The maze is a straight corridor without branches: one row or one column, the
\* start at one end, the only exit at the other, no wall between them.
StraightCorridor(m) ==
    /\ m.rows = 1 \/ m.cols = 1
    /\ m.rows * m.cols >= 2
    /\ LET first == <<0, 0>>
           other == <<m.rows - 1, m.cols - 1>>
       IN  /\ {m.start_position} \cup m.end_positions = {first, other}
           /\ Cardinality(m.end_positions) = 1
           /\ m.start_position \notin m.end_positions
    /\ \A p \in DOMAIN m.grid : m.grid[p].tile # WALL

\* The number of steps of a straight corridor.
CorridorSteps(m) == m.rows * m.cols - 1

\* C16: on a straight corridor of L steps find_way_out returns a path of exactly
\* L + 1 positions, and the search enters every cell of the corridor exactly once
\* (no cell twice while it runs, every cell once when it has returned).
C16_CorridorPath ==
    (StraightCorridor(maze) /\ way_out.fresh) =>
        /\ \A p \in DOMAIN maze.grid : Occurrences(way_out.entered, p) <= 1
        /\ (way_out.pc = "returned") =>
               /\ way_out.result # None
               /\ Len(way_out.result[1]) = CorridorSteps(maze) + 1
               /\ \A p \in DOMAIN maze.grid : Occurrences(way_out.entered, p) = 1

\* C16 witness: the search of a corridor of three or more steps has returned.
C16_Witness ==
    /\ StraightCorridor(maze) /\ FreshSearchReturned
    /\ CorridorSteps(maze) >= 3
    /\ Len(way_out.entered) = CorridorSteps(maze) + 1

\* C19: during a find_way_out on a fresh maze every cell is entered at most once:
\* depth_first_search is called only on cells unvisited at the call.
C19_EnteredAtMostOnce ==
    way_out.fresh => \A p \in DOMAIN maze.grid : Occurrences(way_out.entered, p) <= 1

\* The cells of the active depth_first_search calls, outermost first.
FrameCells == [i \in 1..Len(frames) |-> frames[i].current_pos]

\* C20: at every point of a search path_found is a chain from the start cell of
\* adjacent, visited cells; while no call has returned True it is the chain of
\* the cells of the active calls, so that a call returning False leaves it as it
\* was before the call's cell was entered; a failed search ends with path_found
\* empty and find_way_out returns None.
C20_AccumulatorIsChain ==
    (way_out.pc # "idle") =>
        /\ path_found # <<>> => path_found[1] = maze.start_position
        /\ \A i \in 1..Len(path_found) : maze.grid[path_found[i]].visited
        /\ \A i \in 1..(Len(path_found) - 1) : Adjacent(path_found[i], path_found[i + 1])
        /\ (way_out.pc = "searching" /\ way_out.ret \in {"none", "false"}) => path_found = FrameCells
        /\ (way_out.ret = "false" /\ frames = <<>>) => path_found = <<>>
        /\ (way_out.pc = "returned" /\ way_out.ret = "false") => way_out.result = None

\* C20 witness: a search that entered four or more cells and backtracked out of
\* all of them has returned None.
C20_Witness ==
    /\ way_out.pc = "returned" /\ way_out.ret = "false" /\ way_out.fresh
    /\ Len(way_out.entered) >= 4 /\ path_found = <<>>

C18_LenIsNumberHeld ==
    \A h \in DOMAIN hollow : HollowLen(hollow[h]) = Len(Contents(hollow[h]))

\* ------------------------------------------ claims: the search's behaviour
\* C21: once depth_first_search has entered an exit cell, until find_way_out
\* returns, no cell is marked visited and path_found is not modified, and
\* path_found is what find_way_out returns.
C21_ShortCircuit ==
    [][(way_out.pc = "searching" /\ way_out.ret = "true") =>
           /\ maze' = maze
           /\ path_found' = path_found
           /\ way_out'.entered = way_out.entered
           /\ way_out'.pc = "returned" => way_out'.result = Some(path_found)]_vars

\* C21 witness: a path of three or more cells was returned while a cell that is
\* not a wall, next to the path, was never entered.
C21_Witness ==
    /\ FreshSearchReturned /\ way_out.result # None
    /\ Len(way_out.result[1]) >= 3
    /\ \E p \in DOMAIN maze.grid :
           /\ maze.grid[p].tile # WALL /\ ~maze.grid[p].visited
           /\ \E i \in 1..(Len(path_found) - 1) : Adjacent(p, path_found[i])

\* C22: every find_way_out call returns, and no step of the program clears the
\* visited flag of a cell.
C22_TerminatesVisitedMonotone ==
    /\ (way_out.pc = "searching") ~> (way_out.pc = "returned")
    /\ [][\A p \in DOMAIN maze.grid : maze.grid[p].visited => maze'.grid[p].visited]_vars

\* C22 witness: a search has returned after entering five or more cells, one of
\* them out of which it had backtracked.
C22_Witness ==
    /\ FreshSearchReturned
    /\ Len(way_out.entered) >= 5
    /\ \E i \in 1..Len(way_out.entered) : way_out.entered[i] \notin Range(path_found)

\* The place of the step from p to its neighbour q in the order up, down, left,
\* right.
StepRank(p, q) ==
    IF q[1] = p[1] - 1 THEN 1 ELSE IF q[1] = p[1] + 1 THEN 2 ELSE IF q[2] = p[2] - 1 THEN 3 ELSE 4

\* The list r holds exactly the neighbours of p that are in bounds, not a wall
\* and not visited, each once, in the order up, down, left, right.
IsNeighbourList(r, p) ==
    /\ Range(r) = {q \in DOMAIN maze.grid :
                      Adjacent(p, q) /\ maze.grid[q].tile # WALL /\ ~maze.grid[q].visited}
    /\ \A i, j \in 1..Len(r) : i < j => StepRank(p, r[i]) < StepRank(p, r[j])

\* How many of the steps of the program are possible.
StepsEnabled ==
    Cardinality({a \in {"call", "recurse", "backtrack", "propagate", "return"} :
        \/ a = "call" /\ ENABLED FindWayOutCall
        \/ a = "recurse" /\ ENABLED Recurse
        \/ a = "backtrack" /\ ENABLED Backtrack
        \/ a = "propagate" /\ ENABLED Propagate
        \/ a = "return" /\ ENABLED FindWayOutReturn})

\* C23: get_available_positions(p) is the list of the neighbours of p in bounds,
\* not a wall and not visited, in the order up, down, left, right; the search is
\* deterministic: a running search has exactly one next step, and its loop goes
\* through the list just described.
C23_NeighboursInFixedOrder ==
    /\ \A p \in DOMAIN maze.grid : IsNeighbourList(get_available_positions(maze, p), p)
    /\ (way_out.pc = "searching") => StepsEnabled = 1
    /\ (way_out.pc = "searching" /\ way_out.ret = "none" /\ frames # <<>>
            /\ frames[Len(frames)].k = 1) =>
           IsNeighbourList(frames[Len(frames)].positions, frames[Len(frames)].current_pos)

\* C23 witness: the call that has just started its loop has two neighbours to go
\* to, while a third is left out as visited.
C23_Witness ==
    /\ way_out.pc = "searching" /\ way_out.ret = "none" /\ frames # <<>>
    /\ LET f == frames[Len(frames)]
       IN  /\ f.k = 1 /\ Len(f.positions) >= 2
           /\ \E q \in DOMAIN maze.grid : Adjacent(f.current_pos, q) /\ maze.grid[q].visited

\* ------------------------------------------ claims: the stores' structure
\* Every node of the heap's array has a ratio >= the ratio of each child.
HeapOrdered(arr) ==
    \A i \in 2..Len(arr) :
        KeyLE(value_to_weight_ratio(arr[i]), value_to_weight_ratio(arr[i \div 2]))

\* C24: after restructure_hollow and after every MysticalHollow
\* get_optimal_treasure call the heap's array has the max-heap property.
C24_HeapPropertyKept ==
    \A h \in DOMAIN hollow : hollow[h].kind = "mystical" => HeapOrdered(hollow[h].heap)

\* C24 witness: a call popped a treasure that did not fit, returned the next
\* and added the first back to a heap of two or more.
C24_Witness ==
    /\ Called("mystical") /\ last.route = "scan" /\ last.result # None
    /\ Len(hollow[last.h].heap) >= 2

\* The keys of the tree's in-order traversal never descend: at every node the
\* keys to the left are <= the node's key <= the keys to the right.
InOrderAscending(t) ==
    LET nodes == InOrder(t)
    IN  \A i \in 1..(Len(nodes) - 1) : KeyLE(nodes[i][1], nodes[i + 1][1])

\* C25: after any sequence of SpookyHollow get_optimal_treasure calls the tree is
\* search-ordered, and no call deleted a key that the tree did not hold.
C25_TreeOrderedKeyPresent ==
    \A h \in DOMAIN hollow : hollow[h].kind = "spooky" =>
        /\ InOrderAscending(hollow[h].tree)
        /\ (last.h = h) => last.raised = "none"

\* C25 witness: the second or a later call deleted the node of a treasure found
\* by the descending scan, from a tree of three nodes.
C25_Witness ==
    /\ Called("spooky") /\ last.route = "scan" /\ last.result # None
    /\ Len(last.before) = 2 /\ Len(gen) = 3

\* C27: in every MysticalHollow get_optimal_treasure call the treasures left in
\* the heap and those buffered are together no more than the heap was built
\* for, and adding the buffered ones back does not overflow the heap.
C27_ReinsertionFits ==
    \A h \in DOMAIN hollow : hollow[h].kind = "mystical" =>
        /\ Len(hollow[h].heap) <= hollow[h].cap
        /\ (last.h = h) => last.raised = "none"
        /\ \A c \in Capacities :
               LET l == PopLoop(hollow[h].heap, <<>>, c)
               IN  /\ Len(l.heap) + Len(l.temporary_linked_list) <= hollow[h].cap
                   /\ Reinsert(l.heap, l.temporary_linked_list, hollow[h].cap).raised = "none"

\* C27 witness: a call on a full heap of MaxTreasures treasures buffered all of
\* them and added them back.
C27_Witness ==
    /\ Called("mystical") /\ last.route = "none" /\ last.cap >= 1
    /\ Len(last.before) = MaxTreasures
    /\ Len(hollow[last.h].heap) = hollow[last.h].cap

\* C26: a find_way_out call on a Maze object on which find_way_out has returned
\* before returns what the call before returned.
C26_SearchRepeatable ==
    (way_out.pc = "returned" /\ way_out.previous # None) => way_out.result = way_out.previous[1]

====
